---- MODULE Spec2Model ----
(***************************************************************************)
(* State-machine model of the Wallet orchestrator (lib/chain/wallet) of    *)
(* the OpenSea web3 EVM provider layer: the account registry, the active   *)
(* account, the installed-provider-name set, the persisted cookie blob and *)
(* the asynchronous operations (add, select, install, refresh) that are in *)
(* flight between their suspension points; and of Web3EvmProvider          *)
(* (lib/chain/providers): switchChain, sign, signTypedData, transact, call  *)
(* and the reordering of signatures.                                       *)
(*                                                                         *)
(* Execution model (single-threaded cooperative JavaScript):               *)
(*  - the synchronous part of a call, up to its first `await` on I/O, is   *)
(*    one action;                                                          *)
(*  - every completion of an external I/O (remote account fetch, provider  *)
(*    factory, connect, getAccounts) is one action that runs the           *)
(*    continuation up to the next `await`;                                 *)
(*  - a continuation that only waits for an already settled promise        *)
(*    (select after its add, install after Promise.all, its catch block)   *)
(*    is a queued microtask: it is a separate action, and no new call from *)
(*    the outside (an event handler is a macrotask) is taken while such a  *)
(*    continuation is queued.                                              *)
(***************************************************************************)
EXTENDS Integers, Sequences, FiniteSets, TLC

(* ------------------------------ bounds --------------------------------- *)

\* Largest number of account keys a provider backend reports.
MaxBackendAccounts == 2

(* --------------------------- value domains ----------------------------- *)

\* Address strings as callers and the remote source spell them.  "0xA" and
\* "0xa" are two spellings of one address; "0xb" is another address.
Addresses == {"0xa", "0xA", "0xb"}

\* String.prototype.toLowerCase on the address domain.
toLowerCase(s) == IF s = "0xA" THEN "0xa" ELSE s

\* constants: the chain identifiers and their main/test partition.
MAINNET_CHAIN_IDENTIFIERS == {"ETHEREUM", "FLOW"}

TESTNET_CHAIN_IDENTIFIERS == {"RINKEBY"}

ChainIdentifiers == MAINNET_CHAIN_IDENTIFIERS \cup TESTNET_CHAIN_IDENTIFIERS

\* "NONE" stands for `undefined` (no counterpart in the table).
MAINNET_TO_TESTNET_CHAIN_IDENTIFIERS(c) == IF c = "ETHEREUM" THEN "RINKEBY" ELSE "NONE"

TESTNET_TO_MAINNET_CHAIN_IDENTIFIERS(c) == IF c = "RINKEBY" THEN "ETHEREUM" ELSE "NONE"

\* WALLET_NAME values used as provider backend names.
WalletNames == {"MetaMask"}

\* AccountKey = {address, chain}
AccountKeys == [address : Addresses, chain : ChainIdentifiers]

\* A reference to an Account object: the address the record carries and
\* the identity of the object (see "object identities").
NoAccount == [address |-> "none", obj |-> 0]

\* The cookie when no record is stored.
NoCookie == [present |-> FALSE, accounts |-> <<>>, activeAccount |-> "none",
             installedProviderNames |-> {}]

\* No exception.  The collaborators throw "connectError",
\* "getAccountsError" and "fetchError".
NoError == "none"

(* ------------------------------- state --------------------------------- *)

VARIABLES
    IS_TESTNET,              \* process-wide network mode flag
    accounts,                \* Wallet._accounts.elements (ordered)
    activeAccount,           \* Wallet.activeAccount, NoAccount when unset
    installedProviderNames,  \* Wallet.installedProviderNames
    cookie,                  \* the persisted WalletData blob
    providers,               \* names with a live provider instance in `chain`
    tasks,                   \* asynchronous calls in flight
    persisted,               \* what the last step did to the cookie
    ret,                     \* the call settled by the last step, if any
    requests                 \* what the last call of the provider sent to the backend

vars == <<IS_TESTNET, accounts, activeAccount, installedProviderNames, cookie,
          providers, tasks, persisted, ret, requests>>

\* `undefined` where an AccountKey is expected.
NoKey == [address |-> "none", chain |-> "none"]

\* What install saw of the getAccounts result when it settled at that
\* await: accounts.length, whether some account is off-network, and
\* connectedChain.  n = -1: no result was delivered.
NoGot == [n |-> -1, offNetwork |-> FALSE, connectedChain |-> "none"]

\* The observation of the last step: the call it made or settled (op), at
\* which point of its code (pc), for which caller (owner), with which
\* argument (key, name), and what the caller gets (outcome, val, err);
\* first is the firstAccount of an install, networkId the network id of
\* the chain data given to switchChain (-1: undefined); standard and
\* message are the arguments of a signing call of the provider, answer
\* what the backend answered (a signature, the connected addresses) and sig
\* the signature string the call returns.
NoRet == [op |-> "none", pc |-> "none", outcome |-> "none", owner |-> 0,
          key |-> NoKey, name |-> "none", val |-> NoAccount, err |-> NoError,
          first |-> "none", got |-> NoGot, networkId |-> -1,
          standard |-> "none", message |-> "none", answer |-> <<>>, sig |-> <<>>]

\* A call in flight.  kind: "add" | "select" | "install" | "refresh" |
\* "rfetch"; id: identity of an install/refresh call (0 otherwise);
\* owner: 0 for a call made from outside, the id of the install/refresh
\* that awaits it, -1 when nothing awaits it any more.
Task(kind, id, owner, name, addr, pc, acct, err) ==
    [kind |-> kind, id |-> id, owner |-> owner, name |-> name, addr |-> addr,
     pc |-> pc, acct |-> acct, err |-> err]

Detached == -1

(* ------------------------- OrderedSet (helpers/array) ------------------ *)

\* Mutant of toHash: the key keeps the case of the address.
toHash_CaseSensitive(address) == address

\* Wallet.toHash: JSON.stringify({address: address.toLowerCase()}); the
\* JSON wrapper is injective, the lower-cased address is the key.
toHash(address) == toLowerCase(address)

\* this._accounts.getKey
getKey(a) == toHash(a.address)

OrderedSetHas(elements, key) == \E i \in 1..Len(elements) : getKey(elements[i]) = key

OrderedSetFind(elements, key) ==
    IF OrderedSetHas(elements, key)
    THEN elements[CHOOSE i \in 1..Len(elements) : getKey(elements[i]) = key]
    ELSE NoAccount

\* upsert: replace in place when the key exists, else append
OrderedSetAdd(elements, a) ==
    IF OrderedSetHas(elements, getKey(a))
    THEN [i \in 1..Len(elements) |->
             IF getKey(elements[i]) = getKey(a) THEN a ELSE elements[i]]
    ELSE Append(elements, a)

OrderedSetDelete(elements, key) ==
    LET keep(e) == getKey(e) # key IN SelectSeq(elements, keep)

RECURSIVE OrderedSetNew(_)
OrderedSetNew(list) ==
    IF list = <<>> THEN <<>>
    ELSE OrderedSetAdd(OrderedSetNew(SubSeq(list, 1, Len(list) - 1)), list[Len(list)])

(* ----------------------------- persistence ----------------------------- *)

\* Mutant of SaveCookie: the blob is written whatever the state.
SaveCookie_AlwaysWrite(accts, active, installed) ==
    [present |-> TRUE,
     accounts |-> [i \in 1..Len(accts) |-> accts[i].address],
     activeAccount |-> active.address,
     installedProviderNames |-> installed]

\* Wallet.save: the cookie after save() with the given in-memory state
SaveCookie(accts, active, installed) ==
    IF active # NoAccount \/ Len(accts) > 0 \/ installed # {}
    THEN [present |-> TRUE,
          accounts |-> [i \in 1..Len(accts) |-> accts[i].address],
          activeAccount |-> active.address,
          installedProviderNames |-> installed]
    ELSE NoCookie

\* cookie.set or cookie.remove
SaveKind(accts, active, installed) ==
    IF active # NoAccount \/ Len(accts) > 0 \/ installed # {}
    THEN "set" ELSE "remove"

(* --------------------------- object identities ------------------------- *)

\* The only identity test of the code is `this.activeAccount === account`
\* with `account` an element of the registry, and the registry only ever
\* receives newly created objects (a fetched record, a parsed cookie
\* record): an object that was replaced in or removed from the registry
\* never enters it again.  A reference therefore carries obj = Entry when it
\* points to the object the registry holds now, and obj = Copy when it
\* points to any other object; two references to a registry element are
\* the same object exactly when the records are equal.
Entry == 1

Copy == 2

\* The reference `ref` after the registry element with this key was
\* replaced or removed.
Retire(ref, key) ==
    IF ref.obj = Entry /\ getKey(ref) = key THEN [ref EXCEPT !.obj = Copy] ELSE ref

\* The references held by calls in flight, after the same.
RetireAll(ts, keys) ==
    {IF t.acct.obj = Entry /\ getKey(t.acct) \in keys
     THEN [t EXCEPT !.acct.obj = Copy] ELSE t : t \in ts}

(* ------------------------------ microtasks ----------------------------- *)

\* Promises that the Promise.all of the install / refresh / loadProviders
\* with this id still awaits.
Awaited(id) == {t \in tasks : t.owner = id /\ t.kind \in {"add", "rfetch", "install"}}

\* A continuation is queued as a microtask.
MicrotaskQueued ==
    \E t \in tasks :
        \/ t.kind = "select" /\ t.pc = "cont"
        \/ t.kind \in {"install", "refresh", "load"} /\ t.pc = "join" /\ Awaited(t.id) = {}
        \/ t.kind \in {"install", "refresh", "load"} /\ t.pc = "catch"

\* The outside (event handler, page code) makes a select, install, refresh
\* or loadProviders call when no call is in flight, and an add call when
\* nothing but add calls are; delete, clear and the construction of a new
\* Wallet happen at any suspension point.  The calls that install, refresh
\* and loadProviders start themselves run concurrently.
CanCall == ~MicrotaskQueued /\ tasks = {}

CanCallAdd == ~MicrotaskQueued /\ \A t \in tasks : t.kind = "add" /\ t.owner = 0

(* -------------------------------- Wallet ------------------------------- *)

\* Wallet.find
find(key) == OrderedSetFind(accounts, toHash(key.address))

\* Mutant of addSync: no network-mode check.
addSync_NoNetworkCheck(key) == IF find(key) # NoAccount THEN "found" ELSE "fetch"

\* Mutant of addSync: no local lookup.
addSync_NoFind(key) ==
    IF IS_TESTNET # (key.chain \in TESTNET_CHAIN_IDENTIFIERS) THEN "incompatible"
    ELSE "fetch"

\* Wallet.add up to its first await: "incompatible" (returns undefined),
\* "found" (returns the cached account) or "fetch" (awaits getAccount).
addSync(key) ==
    IF IS_TESTNET # (key.chain \in TESTNET_CHAIN_IDENTIFIERS) THEN "incompatible"
    ELSE IF find(key) # NoAccount THEN "found"
    ELSE "fetch"

\* Mutant of addRegistry: the registry is rebuilt from the new account.
addRegistry_OnlyNew(accts, newAccount) == <<newAccount>>

\* Wallet.add after getAccount returned newAccount: the new registry
addRegistry(accts, newAccount) == OrderedSetAdd(accts, newAccount)

\* Mutant of addActive: the new account always becomes the active one.
addActive_Always(active, newAccount) == newAccount

\* Wallet.add after getAccount returned newAccount: the new active account
addActive(active, newAccount) == IF active = NoAccount THEN newAccount ELSE active

\* Wallet.delete: the active account after `account` was removed
deleteActive(active, account) == IF active = account THEN NoAccount ELSE active

\* Mutant of refreshActive: the active account keeps the record it had.
refreshActive_Keep(active, account) == active

\* Wallet.refresh, per fetched account: the new active account
refreshActive(active, account) ==
    IF active # NoAccount /\ getKey(active) = getKey(account) THEN account ELSE active

\* Mutant of selectActive: the account becomes active only when none is.
selectActive_IfNone(active, account) == IF active = NoAccount THEN account ELSE active

\* Wallet.select after add returned `account`: the new active account
selectActive(active, account) == IF account # NoAccount THEN account ELSE active

\* Wallet.install: accounts.filter(in network)
InNetwork(key) == IS_TESTNET = (key.chain \in TESTNET_CHAIN_IDENTIFIERS)

accountsInNetwork(accts) == SelectSeq(accts, InNetwork)

\* Wallet.install: the counterpart of the connected chain
appropriateChain(connectedChain) ==
    IF connectedChain \in MAINNET_CHAIN_IDENTIFIERS
    THEN MAINNET_TO_TESTNET_CHAIN_IDENTIFIERS(connectedChain)
    ELSE TESTNET_TO_MAINNET_CHAIN_IDENTIFIERS(connectedChain)

\* constants' CHAIN_IDENTIFIERS_TO_NAMES: the display name of a chain
CHAIN_IDENTIFIERS_TO_NAMES(c) ==
    CASE c = "ETHEREUM" -> "Ethereum"
      [] c = "RINKEBY" -> "Rinkeby"
      [] c = "FLOW" -> "Flow"
      [] OTHER -> "undefined"

\* Mutant of networkError: thrown only when no account is in network.
networkError_NoneInNetwork(accts) ==
    IF Len(accts) > 0 /\ Len(accountsInNetwork(accts)) = 0
          /\ appropriateChain(accts[1].chain) # "NONE"
    THEN "Please connect to the "
            \o CHAIN_IDENTIFIERS_TO_NAMES(appropriateChain(accts[1].chain)) \o " network."
    ELSE NoError

\* Wallet.install: the guidance error thrown for the returned accounts, or
\* NoError.  connectedChain is the chain of the first returned account.
networkError(accts) ==
    IF Len(accts) > 0 /\ Len(accts) # Len(accountsInNetwork(accts))
          /\ appropriateChain(accts[1].chain) # "NONE"
    THEN "Please connect to the "
            \o CHAIN_IDENTIFIERS_TO_NAMES(appropriateChain(accts[1].chain)) \o " network."
    ELSE NoError

\* Mutant of catchInstalled: the name stays in the installed set.
catchInstalled_Keep(installed, walletName) == installed

\* Wallet.install, catch block: the installed set after the rollback
catchInstalled(installed, walletName) == installed \ {walletName}

\* chain.deleteProvider
deleteProvider(live, walletName) == live \ {walletName}

\* Identity of a new install / refresh / loadProviders call: the least
\* identity no call in flight has.
UsedIds == {t.id : t \in tasks} \cup {0}

LeastFree(used) ==
    CHOOSE n \in 1..(Cardinality(used) + 1) :
        n \notin used /\ \A m \in 1..(n - 1) : m \in used

FreshId == LeastFree(UsedIds)

\* Provider.getAccounts results: up to MaxBackendAccounts keys with
\* distinct address strings.
BackendAccountLists ==
    UNION {{l \in [1..n -> AccountKeys] :
               \A i, j \in 1..n : i # j => l[i].address # l[j].address}
           : n \in 0..MaxBackendAccounts}

\* Wallet.install after the network check: the calls it starts, each up to
\* its first await: this.select(firstAccount) and accounts.map(this.add).
installChildren(id, accts) ==
    LET inNet == accountsInNetwork(accts)
        sel == IF inNet = <<>> THEN {}
               ELSE {IF addSync(inNet[1]) = "fetch"
                     THEN Task("select", 0, id, "none", inNet[1].address, "fetch",
                               NoAccount, NoError)
                     ELSE Task("select", 0, id, "none", inNet[1].address, "cont",
                               find(inNet[1]), NoError)}
        adds == {Task("add", 0, id, "none", accts[i].address, "fetch", NoAccount, NoError)
                 : i \in {j \in 1..Len(accts) : addSync(accts[j]) = "fetch"}}
    IN sel \cup adds

\* Wallet.loadProviders: the installs it starts, one per installed name
\* without a live provider, each up to `await chain.addProvider`.
RECURSIVE loadChildren(_, _, _)
loadChildren(id, names, used) ==
    IF names = {} THEN {}
    ELSE LET n == CHOOSE x \in names : TRUE
             i == LeastFree(used)
         IN {Task("install", i, id, n, "none", "addProvider", NoAccount, NoError)}
                \cup loadChildren(id, names \ {n}, used \cup {i})

\* Nothing awaits the children of the call `id` any more.
Detach(ts, id) ==
    {IF t.owner = id THEN [t EXCEPT !.owner = Detached] ELSE t : t \in ts}

\* The awaiting call `owner` (a Promise.all) sees one of its promises reject.
RejectOwner(ts, owner, e) ==
    {IF t.id = owner /\ owner > 0 /\ t.pc = "join"
     THEN [t EXCEPT !.pc = "catch", !.err = e] ELSE t : t \in ts}

\* Mutant of hasAccounts: the empty list is handled like any other.
hasAccounts_Always(accts) == TRUE

\* Wallet.install: `if (accounts.length)`
hasAccounts(accts) == Len(accts) # 0

\* What install sees of a getAccounts result (see NoGot).
Digest(accts) ==
    [n |-> Len(accts),
     offNetwork |-> \E i \in 1..Len(accts) :
                       IS_TESTNET # (accts[i].chain \in TESTNET_CHAIN_IDENTIFIERS),
     connectedChain |-> IF Len(accts) > 0 THEN accts[1].chain ELSE "none"]

\* Wallet.install: first(accountsInNetwork), as an address
firstAccount(accts) ==
    IF accountsInNetwork(accts) = <<>> THEN "none"
    ELSE accountsInNetwork(accts)[1].address

\* The observation of a step of the call `op` at `pc`.
Obs(op, pc, outcome, owner) ==
    [NoRet EXCEPT !.op = op, !.pc = pc, !.outcome = outcome, !.owner = owner]

\* new Wallet(): load() from the cookie.  JSON parsing makes every record a
\* separate object; calls in flight belong to the previous instance.
Load ==
    /\ LET n == Len(cookie.accounts)
           parsed == [i \in 1..n |-> [address |-> cookie.accounts[i], obj |-> Entry]]
       IN /\ accounts' = OrderedSetNew(parsed)
          /\ activeAccount' = IF cookie.activeAccount = "none" THEN NoAccount
                              ELSE [address |-> cookie.activeAccount, obj |-> Copy]
    /\ installedProviderNames' = cookie.installedProviderNames
    /\ providers' = {}
    /\ tasks' = {}
    /\ persisted' = "none"
    /\ ret' = Obs("load", "call", "resolved", 0)
    /\ UNCHANGED <<IS_TESTNET, cookie>>
    /\ UNCHANGED requests

\* add(key), up to the await of getAccount
AddCall(key) ==
    /\ Task("add", 0, 0, "none", key.address, "fetch", NoAccount, NoError) \notin tasks
    /\ CASE addSync(key) = "incompatible" ->
              /\ ret' = [Obs("add", "call", "resolved", 0) EXCEPT !.key = key]
              /\ UNCHANGED tasks
         [] addSync(key) = "found" ->
              /\ ret' = [Obs("add", "call", "resolved", 0) EXCEPT
                            !.key = key, !.val = find(key)]
              /\ UNCHANGED tasks
         [] OTHER ->
              /\ tasks' = tasks \cup
                    {Task("add", 0, 0, "none", key.address, "fetch", NoAccount, NoError)}
              /\ ret' = [Obs("add", "call", "pending", 0) EXCEPT !.key = key]
    /\ persisted' = "none"
    /\ UNCHANGED <<IS_TESTNET, accounts, activeAccount, installedProviderNames,
                   cookie, providers>>
    /\ UNCHANGED requests

\* add(key) called from outside
Add(key) == CanCallAdd /\ AddCall(key)

\* select(key), up to `await this.add(key)`
SelectCall(key) ==
    /\ \A t \in tasks : ~(t.kind = "select" /\ t.owner = 0 /\ t.addr = key.address)
    /\ tasks' = tasks \cup
          {IF addSync(key) = "fetch"
           THEN Task("select", 0, 0, "none", key.address, "fetch", NoAccount, NoError)
           ELSE Task("select", 0, 0, "none", key.address, "cont", find(key), NoError)}
    /\ persisted' = "none"
    /\ ret' = [Obs("select", "call", "pending", 0) EXCEPT !.key = key]
    /\ UNCHANGED <<IS_TESTNET, accounts, activeAccount, installedProviderNames,
                   cookie, providers>>
    /\ UNCHANGED requests

\* select(key) called from outside
Select(key) == CanCall /\ SelectCall(key)

\* Wallet.getAccount resolves with an account for the add of task t: the
\* rest of add (register, adopt as active, save, return newAccount).
AddFetched(t, address) ==
    /\ t \in tasks /\ t.kind \in {"add", "select"} /\ t.pc = "fetch"
    /\ toLowerCase(address) = toLowerCase(t.addr)
    /\ LET newAccount == [address |-> address, obj |-> Entry]
           others == RetireAll(tasks \ {t}, {getKey(newAccount)})
       IN /\ accounts' = addRegistry(accounts, newAccount)
          /\ activeAccount' =
                addActive(Retire(activeAccount, getKey(newAccount)), newAccount)
          /\ tasks' = IF t.kind = "select"
                      THEN others \cup {[t EXCEPT !.pc = "cont", !.acct = newAccount]}
                      ELSE others
          /\ ret' = [Obs("add", "fetch", "resolved", t.owner) EXCEPT
                        !.key.address = t.addr, !.val = newAccount]
    /\ cookie' = SaveCookie(accounts', activeAccount', installedProviderNames)
    /\ persisted' = SaveKind(accounts', activeAccount', installedProviderNames)
    /\ UNCHANGED <<IS_TESTNET, installedProviderNames, providers>>
    /\ UNCHANGED requests

\* Wallet.getAccount resolves with no account: add returns undefined.
AddNotFound(t) ==
    /\ t \in tasks /\ t.kind \in {"add", "select"} /\ t.pc = "fetch"
    /\ tasks' = IF t.kind = "select"
                THEN (tasks \ {t}) \cup {[t EXCEPT !.pc = "cont"]}
                ELSE tasks \ {t}
    /\ ret' = [Obs("add", "fetch", "resolved", t.owner) EXCEPT !.key.address = t.addr]
    /\ persisted' = "none"
    /\ UNCHANGED <<IS_TESTNET, accounts, activeAccount, installedProviderNames,
                   cookie, providers>>
    /\ UNCHANGED requests

\* Wallet.getAccount rejects: add rejects; a Promise.all awaiting it rejects.
AddFetchFailed(t) ==
    /\ t \in tasks /\ t.kind \in {"add", "select"} /\ t.pc = "fetch"
    /\ tasks' = IF t.kind = "select"
                THEN (tasks \ {t}) \cup {[t EXCEPT !.pc = "cont", !.err = "fetchError"]}
                ELSE RejectOwner(tasks \ {t}, t.owner, "fetchError")
    /\ ret' = [Obs("add", "fetch", "rejected", t.owner) EXCEPT
                  !.key.address = t.addr, !.err = "fetchError"]
    /\ persisted' = "none"
    /\ UNCHANGED <<IS_TESTNET, accounts, activeAccount, installedProviderNames,
                   cookie, providers>>
    /\ UNCHANGED requests

\* select after `await this.add(key)`: make the account active and save
SelectCont(t) ==
    /\ t \in tasks /\ t.kind = "select" /\ t.pc = "cont"
    /\ tasks' = tasks \ {t}
    /\ IF t.err = NoError /\ t.acct # NoAccount
       THEN /\ activeAccount' = selectActive(activeAccount, t.acct)
            /\ cookie' = SaveCookie(accounts, activeAccount', installedProviderNames)
            /\ persisted' = SaveKind(accounts, activeAccount', installedProviderNames)
       ELSE /\ persisted' = "none"
            /\ UNCHANGED <<activeAccount, cookie>>
    /\ ret' = [Obs("select", "cont", IF t.err # NoError THEN "rejected" ELSE "resolved",
                   t.owner) EXCEPT
                  !.key.address = t.addr, !.val = t.acct, !.err = t.err]
    /\ UNCHANGED <<IS_TESTNET, accounts, installedProviderNames, providers>>
    /\ UNCHANGED requests

\* delete(key); the chain of the key is not read
Delete(key) ==
    /\ ~MicrotaskQueued
    /\ LET account == find(key)
       IN IF account # NoAccount
          THEN /\ accounts' = OrderedSetDelete(accounts, toHash(key.address))
               /\ activeAccount' = deleteActive(activeAccount, account)
               /\ tasks' = RetireAll(tasks, {toHash(key.address)})
               /\ cookie' = SaveCookie(accounts', activeAccount', installedProviderNames)
               /\ persisted' = SaveKind(accounts', activeAccount', installedProviderNames)
          ELSE /\ persisted' = "none"
               /\ UNCHANGED <<accounts, activeAccount, cookie, tasks>>
    /\ ret' = [Obs("delete", "call", "resolved", 0) EXCEPT !.key = key]
    /\ UNCHANGED <<IS_TESTNET, installedProviderNames, providers>>
    /\ UNCHANGED requests

\* Mutant of clearInstalled: the installed set is left as it is.
clearInstalled_Keep(installed) == installed

\* Wallet.clear: this.installedProviderNames.clear()
clearInstalled(installed) == {}

\* clear()
Clear ==
    /\ ~MicrotaskQueued
    /\ activeAccount' = NoAccount
    /\ accounts' = <<>>
    /\ installedProviderNames' = clearInstalled(installedProviderNames)
    /\ cookie' = SaveCookie(accounts', activeAccount', installedProviderNames')
    /\ persisted' = SaveKind(accounts', activeAccount', installedProviderNames')
    /\ tasks' = RetireAll(tasks, {getKey(accounts[i]) : i \in 1..Len(accounts)})
    /\ ret' = Obs("clear", "call", "resolved", 0)
    /\ UNCHANGED <<IS_TESTNET, providers>>
    /\ UNCHANGED requests

\* install(walletName), up to `await chain.addProvider`
InstallCall(walletName) ==
    /\ tasks' = tasks \cup
          {Task("install", FreshId, 0, walletName, "none", "addProvider", NoAccount, NoError)}
    /\ persisted' = "none"
    /\ ret' = [Obs("install", "call", "pending", 0) EXCEPT !.name = walletName]
    /\ UNCHANGED <<IS_TESTNET, accounts, activeAccount, installedProviderNames,
                   cookie, providers>>
    /\ UNCHANGED requests

\* install(walletName) called from outside
Install(walletName) == CanCall /\ InstallCall(walletName)

\* chain.addProvider resolves with an instance: install calls connect()
AddProviderDone(t) ==
    /\ t \in tasks /\ t.kind = "install" /\ t.pc = "addProvider"
    /\ providers' = providers \cup {t.name}
    /\ tasks' = (tasks \ {t}) \cup {[t EXCEPT !.pc = "connect"]}
    /\ persisted' = "none"
    /\ ret' = NoRet
    /\ UNCHANGED <<IS_TESTNET, accounts, activeAccount, installedProviderNames, cookie>>
    /\ UNCHANGED requests

\* chain.addProvider resolves with no provider: install returns
AddProviderUnavailable(t) ==
    /\ t \in tasks /\ t.kind = "install" /\ t.pc = "addProvider"
    /\ tasks' = tasks \ {t}
    /\ persisted' = "none"
    /\ ret' = [Obs("install", "addProvider", "resolved", t.owner) EXCEPT !.name = t.name]
    /\ UNCHANGED <<IS_TESTNET, accounts, activeAccount, installedProviderNames,
                   cookie, providers>>
    /\ UNCHANGED requests

\* provider.connect() resolves: install calls getAccounts()
ConnectDone(t) ==
    /\ t \in tasks /\ t.kind = "install" /\ t.pc = "connect"
    /\ tasks' = (tasks \ {t}) \cup {[t EXCEPT !.pc = "getAccounts"]}
    /\ persisted' = "none"
    /\ ret' = NoRet
    /\ UNCHANGED <<IS_TESTNET, accounts, activeAccount, installedProviderNames,
                   cookie, providers>>
    /\ UNCHANGED requests

\* The catch block of install, entered from `pc` with exception e: release
\* the provider, forget the name, save, rethrow e.
InstallCatch(t, pc, e, got) ==
    /\ providers' = deleteProvider(providers, t.name)
    /\ installedProviderNames' = catchInstalled(installedProviderNames, t.name)
    /\ cookie' = SaveCookie(accounts, activeAccount, installedProviderNames')
    /\ persisted' = SaveKind(accounts, activeAccount, installedProviderNames')
    /\ tasks' = Detach(RejectOwner(tasks \ {t}, t.owner, e), t.id)
    /\ ret' = [Obs("install", pc, "rejected", t.owner) EXCEPT
                  !.name = t.name, !.err = e, !.first = t.addr, !.got = got]
    /\ UNCHANGED <<IS_TESTNET, accounts, activeAccount>>

\* provider.connect() rejects
ConnectFailed(t) ==
    /\ t \in tasks /\ t.kind = "install" /\ t.pc = "connect"
    /\ InstallCatch(t, "connect", "connectError", NoGot)
    /\ UNCHANGED requests

\* provider.getAccounts() rejects
GetAccountsFailed(t) ==
    /\ t \in tasks /\ t.kind = "install" /\ t.pc = "getAccounts"
    /\ InstallCatch(t, "getAccounts", "getAccountsError", NoGot)
    /\ UNCHANGED requests

\* provider.getAccounts() resolves with accts: the rest of the try block up
\* to `await Promise.all(...)`
GetAccountsDone(t, accts) ==
    /\ t \in tasks /\ t.kind = "install" /\ t.pc = "getAccounts"
    /\ IF ~hasAccounts(accts)
       THEN /\ tasks' = tasks \ {t}
            /\ persisted' = "none"
            /\ ret' = [Obs("install", "getAccounts", "resolved", t.owner) EXCEPT
                          !.name = t.name, !.got = Digest(accts)]
            /\ UNCHANGED <<IS_TESTNET, accounts, activeAccount, installedProviderNames,
                           cookie, providers>>
       ELSE IF networkError(accts) # NoError
       THEN InstallCatch(t, "getAccounts", networkError(accts), Digest(accts))
       ELSE /\ tasks' = (tasks \ {t})
                            \cup {[t EXCEPT !.pc = "join", !.addr = firstAccount(accts)]}
                            \cup installChildren(t.id, accts)
            /\ persisted' = "none"
            /\ ret' = [Obs("install", "getAccounts", "pending", t.owner) EXCEPT
                          !.name = t.name, !.first = firstAccount(accts),
                          !.got = Digest(accts)]
            /\ UNCHANGED <<IS_TESTNET, accounts, activeAccount, installedProviderNames,
                           cookie, providers>>
    /\ UNCHANGED requests

\* install after Promise.all resolved: mark installed, save, return.  The
\* continuation of its own select, when queued, was queued first.
InstallJoin(t) ==
    /\ t \in tasks /\ t.kind = "install" /\ t.pc = "join"
    /\ Awaited(t.id) = {}
    /\ \A c \in tasks : ~(c.kind = "select" /\ c.owner = t.id /\ c.pc = "cont")
    /\ installedProviderNames' = installedProviderNames \cup {t.name}
    /\ cookie' = SaveCookie(accounts, activeAccount, installedProviderNames')
    /\ persisted' = SaveKind(accounts, activeAccount, installedProviderNames')
    /\ tasks' = Detach(tasks \ {t}, t.id)
    /\ ret' = [Obs("install", "join", "resolved", t.owner) EXCEPT
                  !.name = t.name, !.first = t.addr]
    /\ UNCHANGED <<IS_TESTNET, accounts, activeAccount, providers>>
    /\ UNCHANGED requests

\* install after Promise.all rejected: the catch block
InstallRejected(t) ==
    /\ t \in tasks /\ t.kind = "install" /\ t.pc = "catch"
    /\ InstallCatch(t, "catch", t.err, NoGot)
    /\ UNCHANGED requests

\* refresh(): one getAccount per registered account
RefreshCall ==
    /\ LET id == FreshId
       IN tasks' = tasks \cup
             {Task("refresh", id, 0, "none", "none", "join", NoAccount, NoError)}
             \cup {Task("rfetch", 0, id, "none", accounts[i].address, "fetch",
                        NoAccount, NoError) : i \in 1..Len(accounts)}
    /\ persisted' = "none"
    /\ ret' = Obs("refresh", "call", "pending", 0)
    /\ UNCHANGED <<IS_TESTNET, accounts, activeAccount, installedProviderNames,
                   cookie, providers>>
    /\ UNCHANGED requests

\* refresh() called from outside
Refresh == CanCall /\ RefreshCall

\* one getAccount of refresh resolves with an account
RefreshFetched(t, address) ==
    /\ t \in tasks /\ t.kind = "rfetch"
    /\ toLowerCase(address) = toLowerCase(t.addr)
    /\ LET account == [address |-> address, obj |-> Entry]
       IN /\ accounts' = OrderedSetAdd(accounts, account)
          /\ activeAccount' = refreshActive(Retire(activeAccount, getKey(account)), account)
          /\ tasks' = RetireAll(tasks \ {t}, {getKey(account)})
          /\ ret' = [Obs("refresh", "fetch", "resolved", t.owner) EXCEPT
                        !.key.address = t.addr, !.val = account]
    /\ persisted' = "none"
    /\ UNCHANGED <<IS_TESTNET, installedProviderNames, cookie, providers>>
    /\ UNCHANGED requests

\* one getAccount of refresh resolves with no account
RefreshNotFound(t) ==
    /\ t \in tasks /\ t.kind = "rfetch"
    /\ tasks' = tasks \ {t}
    /\ persisted' = "none"
    /\ ret' = [Obs("refresh", "fetch", "resolved", t.owner) EXCEPT !.key.address = t.addr]
    /\ UNCHANGED <<IS_TESTNET, accounts, activeAccount, installedProviderNames,
                   cookie, providers>>
    /\ UNCHANGED requests

\* one getAccount of refresh rejects: its Promise.all rejects
RefreshFetchFailed(t) ==
    /\ t \in tasks /\ t.kind = "rfetch"
    /\ tasks' = RejectOwner(tasks \ {t}, t.owner, "fetchError")
    /\ persisted' = "none"
    /\ ret' = [Obs("refresh", "fetch", "rejected", t.owner) EXCEPT
                  !.key.address = t.addr, !.err = "fetchError"]
    /\ UNCHANGED <<IS_TESTNET, accounts, activeAccount, installedProviderNames,
                   cookie, providers>>
    /\ UNCHANGED requests

\* refresh after Promise.all resolved: save
RefreshJoin(t) ==
    /\ t \in tasks /\ t.kind = "refresh" /\ t.pc = "join"
    /\ Awaited(t.id) = {}
    /\ cookie' = SaveCookie(accounts, activeAccount, installedProviderNames)
    /\ persisted' = SaveKind(accounts, activeAccount, installedProviderNames)
    /\ tasks' = tasks \ {t}
    /\ ret' = Obs("refresh", "join", "resolved", 0)
    /\ UNCHANGED <<IS_TESTNET, accounts, activeAccount, installedProviderNames, providers>>
    /\ UNCHANGED requests

\* refresh after Promise.all rejected: it rejects without saving
RefreshRejected(t) ==
    /\ t \in tasks /\ t.kind = "refresh" /\ t.pc = "catch"
    /\ tasks' = Detach(tasks \ {t}, t.id)
    /\ persisted' = "none"
    /\ ret' = [Obs("refresh", "catch", "rejected", 0) EXCEPT !.err = t.err]
    /\ UNCHANGED <<IS_TESTNET, accounts, activeAccount, installedProviderNames,
                   cookie, providers>>
    /\ UNCHANGED requests

\* loadProviders() called from outside
LoadProviders ==
    /\ CanCall
    /\ LET id == FreshId
           names == {n \in installedProviderNames : n \notin providers}
       IN tasks' = tasks \cup
             {Task("load", id, 0, "none", "none", "join", NoAccount, NoError)}
             \cup loadChildren(id, names, UsedIds \cup {id})
    /\ persisted' = "none"
    /\ ret' = Obs("loadProviders", "call", "pending", 0)
    /\ UNCHANGED <<IS_TESTNET, accounts, activeAccount, installedProviderNames,
                   cookie, providers>>
    /\ UNCHANGED requests

\* loadProviders after Promise.all resolved
LoadProvidersJoin(t) ==
    /\ t \in tasks /\ t.kind = "load" /\ t.pc = "join"
    /\ Awaited(t.id) = {}
    /\ tasks' = tasks \ {t}
    /\ persisted' = "none"
    /\ ret' = Obs("loadProviders", "join", "resolved", 0)
    /\ UNCHANGED <<IS_TESTNET, accounts, activeAccount, installedProviderNames,
                   cookie, providers>>
    /\ UNCHANGED requests

\* loadProviders after Promise.all rejected
LoadProvidersRejected(t) ==
    /\ t \in tasks /\ t.kind = "load" /\ t.pc = "catch"
    /\ tasks' = Detach(tasks \ {t}, t.id)
    /\ persisted' = "none"
    /\ ret' = [Obs("loadProviders", "catch", "rejected", 0) EXCEPT !.err = t.err]
    /\ UNCHANGED <<IS_TESTNET, accounts, activeAccount, installedProviderNames,
                   cookie, providers>>
    /\ UNCHANGED requests

(* ---------------------------- specification ---------------------------- *)

Init ==
    /\ IS_TESTNET \in BOOLEAN
    /\ accounts = <<>>
    /\ activeAccount = NoAccount
    /\ installedProviderNames = {}
    /\ cookie = NoCookie
    /\ providers = {}
    /\ tasks = {}
    /\ persisted = "none"
    /\ ret = NoRet
    /\ requests = <<>>

Next ==
    \/ Load
    \/ \E key \in AccountKeys : Add(key)
    \/ \E key \in AccountKeys : Select(key)
    \/ \E t \in tasks, address \in Addresses : AddFetched(t, address)
    \/ \E t \in tasks : AddNotFound(t)
    \/ \E t \in tasks : AddFetchFailed(t)
    \/ \E t \in tasks : SelectCont(t)
    \/ \E key \in AccountKeys : Delete(key)
    \/ Clear
    \/ \E walletName \in WalletNames : Install(walletName)
    \/ \E t \in tasks : AddProviderDone(t)
    \/ \E t \in tasks : AddProviderUnavailable(t)
    \/ \E t \in tasks : ConnectDone(t)
    \/ \E t \in tasks : ConnectFailed(t)
    \/ \E t \in tasks : GetAccountsFailed(t)
    \/ \E t \in tasks, accts \in BackendAccountLists : GetAccountsDone(t, accts)
    \/ \E t \in tasks : InstallJoin(t)
    \/ \E t \in tasks : InstallRejected(t)
    \/ Refresh
    \/ \E t \in tasks, address \in Addresses : RefreshFetched(t, address)
    \/ \E t \in tasks : RefreshNotFound(t)
    \/ \E t \in tasks : RefreshFetchFailed(t)
    \/ \E t \in tasks : RefreshJoin(t)
    \/ \E t \in tasks : RefreshRejected(t)
    \/ LoadProviders
    \/ \E t \in tasks : LoadProvidersJoin(t)
    \/ \E t \in tasks : LoadProvidersRejected(t)

Spec == Init /\ [][Next]_vars

(* ------------------ reconnection after a page load --------------------- *)

\* The provider names a previous session left installed.
ReconnectNames == {"MetaMask", "WalletConnect"}

\* The blob a previous session left: two wallets were installed, one account
\* is registered and active.
ReconnectCookie ==
    [present |-> TRUE, accounts |-> <<"0xa">>, activeAccount |-> "0xa",
     installedProviderNames |-> ReconnectNames]

\* new Wallet() on that blob
InitReconnect ==
    /\ IS_TESTNET \in BOOLEAN
    /\ cookie = ReconnectCookie
    /\ accounts = OrderedSetNew(<<[address |-> "0xa", obj |-> Entry]>>)
    /\ activeAccount = [address |-> "0xa", obj |-> Copy]
    /\ installedProviderNames = ReconnectNames
    /\ providers = {}
    /\ tasks = {}
    /\ persisted = "none"
    /\ ret = NoRet
    /\ requests = <<>>

\* loadProviders() and the steps of the installs it starts
NextReconnect ==
    \/ LoadProviders
    \/ \E t \in tasks : LoadProvidersJoin(t)
    \/ \E t \in tasks : LoadProvidersRejected(t)
    \/ \E t \in tasks : AddProviderDone(t)
    \/ \E t \in tasks : AddProviderUnavailable(t)
    \/ \E t \in tasks : ConnectDone(t)
    \/ \E t \in tasks : ConnectFailed(t)
    \/ \E t \in tasks : GetAccountsFailed(t)
    \/ \E t \in tasks, accts \in BackendAccountLists : GetAccountsDone(t, accts)
    \/ \E t \in tasks, address \in Addresses : AddFetched(t, address)
    \/ \E t \in tasks : AddNotFound(t)
    \/ \E t \in tasks : AddFetchFailed(t)
    \/ \E t \in tasks : SelectCont(t)
    \/ \E t \in tasks : InstallJoin(t)
    \/ \E t \in tasks : InstallRejected(t)

SpecReconnect == InitReconnect /\ [][NextReconnect]_vars

(* --------------------------- concurrent calls -------------------------- *)

\* Largest number of calls made from outside that are in flight at once.
MaxConcurrentCalls == 2

\* The outside makes a call at any suspension point of the calls in flight,
\* of a kind (an add or a select, an install, a refresh) of which it has
\* none in flight, and none once a call has failed while calls it started
\* are still in flight.
CanCallConcurrently(kinds) ==
    /\ ~MicrotaskQueued
    /\ Cardinality({t \in tasks : t.owner = 0}) < MaxConcurrentCalls
    /\ \A t \in tasks : t.owner # Detached /\ ~(t.owner = 0 /\ t.kind \in kinds)

\* The addresses of the concurrent calls, as callers, the backend and the
\* remote source spell them here: lower-case.
ConcurrentAddresses == {"0xa", "0xb"}

\* The keys the concurrent calls are made for, and the backend reports:
\* two addresses of the main network.
ConcurrentKeys == [address : ConcurrentAddresses, chain : {"ETHEREUM"}]

ConcurrentAccountLists ==
    {l \in BackendAccountLists : \A i \in 1..Len(l) : l[i] \in ConcurrentKeys}

\* A new Wallet in mainnet mode with no persisted record.
InitConcurrent == Init /\ ~IS_TESTNET

\* add, select, refresh and install called from outside while other calls
\* are in flight, and the steps of these calls; no delete, no clear.
NextConcurrent ==
    \/ \E key \in ConcurrentKeys : CanCallConcurrently({"add", "select"}) /\ AddCall(key)
    \/ \E key \in ConcurrentKeys : CanCallConcurrently({"add", "select"}) /\ SelectCall(key)
    \/ \E walletName \in WalletNames : CanCallConcurrently({"install"}) /\ InstallCall(walletName)
    \/ CanCallConcurrently({"refresh"}) /\ RefreshCall
    \/ \E t \in tasks, address \in ConcurrentAddresses : AddFetched(t, address)
    \/ \E t \in tasks : AddNotFound(t)
    \/ \E t \in tasks : AddFetchFailed(t)
    \/ \E t \in tasks : SelectCont(t)
    \/ \E t \in tasks : AddProviderDone(t)
    \/ \E t \in tasks : AddProviderUnavailable(t)
    \/ \E t \in tasks : ConnectDone(t)
    \/ \E t \in tasks : ConnectFailed(t)
    \/ \E t \in tasks : GetAccountsFailed(t)
    \/ \E t \in tasks, accts \in ConcurrentAccountLists : GetAccountsDone(t, accts)
    \/ \E t \in tasks : InstallJoin(t)
    \/ \E t \in tasks : InstallRejected(t)
    \/ \E t \in tasks, address \in ConcurrentAddresses : RefreshFetched(t, address)
    \/ \E t \in tasks : RefreshNotFound(t)
    \/ \E t \in tasks : RefreshFetchFailed(t)
    \/ \E t \in tasks : RefreshJoin(t)
    \/ \E t \in tasks : RefreshRejected(t)

SpecConcurrent == InitConcurrent /\ [][NextConcurrent]_vars

(* --------------------------- Web3EvmProvider --------------------------- *)

USER_REJECTED_REQUEST_ERROR_CODE == 4001

UNADDED_CHAIN_ERROR_CODE == 4902

\* A JSON-RPC error code that is neither of the two (internal error).
InternalErrorCode == -32603

\* The `code` of an error that has none (undefined).
NoErrorCode == 0

\* The errors a request to the backend can fail with, by their code.
ErrorCodes ==
    {USER_REJECTED_REQUEST_ERROR_CODE, UNADDED_CHAIN_ERROR_CODE,
     InternalErrorCode, NoErrorCode}

\* readChainData(chainData).networkId when the chain has none (undefined).
UndefinedNetworkId == -1

\* The network ids of the chain data given to switchChain.
NetworkIds == {UndefinedNetworkId, 0, 1, 4}

\* web3.toHex(networkId)
toHex(networkId) ==
    CASE networkId = 1 -> "0x1"
      [] networkId = 4 -> "0x4"
      [] OTHER -> "0x0"

\* Mutant of networkIdFound: every chain data is accepted.
networkIdFound_Always(networkId) == TRUE

\* switchChain: `networkId` is truthy, the negation of `if (!networkId)`
networkIdFound(networkId) == networkId # UndefinedNetworkId /\ networkId # 0

\* Mutant of switchOutcome: the chain is added after any failure but a
\* rejection by the user.
switchOutcome_AddOnAnyError(code) ==
    IF code = USER_REJECTED_REQUEST_ERROR_CODE THEN "ignore" ELSE "add"

\* Mutant of switchOutcome: a rejection by the user is an error.
switchOutcome_RejectionThrows(code) ==
    IF code = UNADDED_CHAIN_ERROR_CODE THEN "add" ELSE "throw"

\* switchChain, `switch (switchError.code)`: send wallet_addEthereumChain,
\* break, or throw.
switchOutcome(code) ==
    CASE code = UNADDED_CHAIN_ERROR_CODE -> "add"
      [] code = USER_REJECTED_REQUEST_ERROR_CODE -> "ignore"
      [] OTHER -> "throw"

\* A request as sent to the backend, with its answer: "pending", "ok" or
\* "error" with the code of the error.  chainId is the chain of a switch or
\* add request, the signer address of a signing request, the source of a
\* transaction.
Request(method, chainId) ==
    [method |-> method, chainId |-> chainId, answer |-> "pending", code |-> NoErrorCode]

\* The log after the backend answered the last request.
Answered(log, answer, code) ==
    [log EXCEPT ![Len(log)] = [@ EXCEPT !.answer = answer, !.code = code]]

SwitchTask(chainId, pc) ==
    Task("switchChain", 0, 0, "none", chainId, pc, NoAccount, NoError)

\* switchChain(chainData) called, up to the await of the switch request
SwitchChain(networkId) ==
    /\ ~MicrotaskQueued
    /\ \A t \in tasks : t.kind # "switchChain"
    /\ IF ~networkIdFound(networkId)
       THEN /\ ret' = [Obs("switchChain", "call", "rejected", 0) EXCEPT
                          !.networkId = networkId,
                          !.err = "Chain network ID was not found"]
            /\ requests' = <<>>
            /\ UNCHANGED tasks
       ELSE /\ requests' = <<Request("wallet_switchEthereumChain", toHex(networkId))>>
            /\ tasks' = tasks \cup {SwitchTask(toHex(networkId), "switch")}
            /\ ret' = [Obs("switchChain", "call", "pending", 0) EXCEPT
                          !.networkId = networkId]
    /\ persisted' = "none"
    /\ UNCHANGED <<IS_TESTNET, accounts, activeAccount, installedProviderNames,
                   cookie, providers>>

\* the backend switched the chain: switchChain returns
SwitchDone(t) ==
    /\ t \in tasks /\ t.kind = "switchChain" /\ t.pc = "switch"
    /\ requests' = Answered(requests, "ok", NoErrorCode)
    /\ tasks' = tasks \ {t}
    /\ ret' = Obs("switchChain", "switch", "resolved", 0)
    /\ persisted' = "none"
    /\ UNCHANGED <<IS_TESTNET, accounts, activeAccount, installedProviderNames,
                   cookie, providers>>

\* the switch request failed with an error of this code: the catch block
SwitchFailed(t, code) ==
    /\ t \in tasks /\ t.kind = "switchChain" /\ t.pc = "switch"
    /\ CASE switchOutcome(code) = "add" ->
              /\ requests' = Append(Answered(requests, "error", code),
                                    Request("wallet_addEthereumChain", t.addr))
              /\ tasks' = (tasks \ {t}) \cup {SwitchTask(t.addr, "add")}
              /\ ret' = Obs("switchChain", "switch", "pending", 0)
         [] switchOutcome(code) = "ignore" ->
              /\ requests' = Answered(requests, "error", code)
              /\ tasks' = tasks \ {t}
              /\ ret' = Obs("switchChain", "switch", "resolved", 0)
         [] OTHER ->
              /\ requests' = Answered(requests, "error", code)
              /\ tasks' = tasks \ {t}
              /\ ret' = [Obs("switchChain", "switch", "rejected", 0) EXCEPT
                            !.err = "There was a problem switching the network"]
    /\ persisted' = "none"
    /\ UNCHANGED <<IS_TESTNET, accounts, activeAccount, installedProviderNames,
                   cookie, providers>>

\* the backend added the chain: switchChain returns
AddChainDone(t) ==
    /\ t \in tasks /\ t.kind = "switchChain" /\ t.pc = "add"
    /\ requests' = Answered(requests, "ok", NoErrorCode)
    /\ tasks' = tasks \ {t}
    /\ ret' = Obs("switchChain", "add", "resolved", 0)
    /\ persisted' = "none"
    /\ UNCHANGED <<IS_TESTNET, accounts, activeAccount, installedProviderNames,
                   cookie, providers>>

\* the add request failed, with whatever error
AddChainFailed(t, code) ==
    /\ t \in tasks /\ t.kind = "switchChain" /\ t.pc = "add"
    /\ requests' = Answered(requests, "error", code)
    /\ tasks' = tasks \ {t}
    /\ ret' = [Obs("switchChain", "add", "rejected", 0) EXCEPT
                  !.err = "There was a problem adding the network"]
    /\ persisted' = "none"
    /\ UNCHANGED <<IS_TESTNET, accounts, activeAccount, installedProviderNames,
                   cookie, providers>>

(* -------------------- Wallet.sign / signTypedData / transact ----------- *)

\* The Wallet methods that forward to the provider of the active account.
SignKinds == {"sign", "signTypedData", "transact"}

\* chain.findProvider(accountKey): a live provider or undefined ("none").
findProviderResults(live) == live \cup {"none"}

\* UNSAFE_getActiveAccountAndProviderOrRedirect: `account && accountKey &&
\* provider`
canForward(account, provider) == account # NoAccount /\ provider # "none"

NoProviderError == "Could not find wallet provider matching current account."

\* One of these calls is in flight.
Forwarding == \E t \in tasks : t.kind \in SignKinds \cup {"getProvider"}

\* sign / signTypedData / transact called, up to the await of
\* chain.findProvider in getProvider; without an active account getProvider
\* returns undefined and the call fails in the same run of microtasks.
SignCall(kind) ==
    /\ ~MicrotaskQueued /\ ~Forwarding
    /\ IF activeAccount = NoAccount
       THEN /\ ret' = [Obs(kind, "call", "rejected", 0) EXCEPT !.err = NoProviderError]
            /\ UNCHANGED tasks
       ELSE /\ tasks' = tasks \cup
                  {Task(kind, 0, 0, "none", activeAccount.address, "findProvider",
                        NoAccount, NoError)}
            /\ ret' = [Obs(kind, "call", "pending", 0) EXCEPT
                          !.key.address = activeAccount.address]
    /\ persisted' = "none"
    /\ UNCHANGED <<IS_TESTNET, accounts, activeAccount, installedProviderNames,
                   cookie, providers, requests>>

\* chain.findProvider resolves with `provider` for the key the call read:
\* the rest of UNSAFE_getActiveAccountAndProviderOrRedirect, which reads
\* the active account, and the call of the provider.
SignCont(t, provider) ==
    /\ t \in tasks /\ t.kind \in SignKinds /\ t.pc = "findProvider"
    /\ provider \in findProviderResults(providers)
    /\ tasks' = tasks \ {t}
    /\ ret' = IF canForward(activeAccount, provider)
              THEN [Obs(t.kind, "forward", "forwarded", 0) EXCEPT
                       !.key.address = t.addr, !.name = provider, !.val = activeAccount]
              ELSE [Obs(t.kind, "forward", "rejected", 0) EXCEPT
                       !.key.address = t.addr, !.name = provider,
                       !.val = activeAccount, !.err = NoProviderError]
    /\ persisted' = "none"
    /\ UNCHANGED <<IS_TESTNET, accounts, activeAccount, installedProviderNames,
                   cookie, providers, requests>>

\* getProvider() called
GetProvider ==
    /\ ~MicrotaskQueued /\ ~Forwarding
    /\ IF activeAccount = NoAccount
       THEN /\ ret' = Obs("getProvider", "call", "resolved", 0)
            /\ UNCHANGED tasks
       ELSE /\ tasks' = tasks \cup
                  {Task("getProvider", 0, 0, "none", activeAccount.address,
                        "findProvider", NoAccount, NoError)}
            /\ ret' = [Obs("getProvider", "call", "pending", 0) EXCEPT
                          !.key.address = activeAccount.address]
    /\ persisted' = "none"
    /\ UNCHANGED <<IS_TESTNET, accounts, activeAccount, installedProviderNames,
                   cookie, providers, requests>>

\* chain.findProvider resolves for getProvider
GetProviderDone(t, provider) ==
    /\ t \in tasks /\ t.kind = "getProvider" /\ t.pc = "findProvider"
    /\ provider \in findProviderResults(providers)
    /\ tasks' = tasks \ {t}
    /\ ret' = [Obs("getProvider", "findProvider", "resolved", 0) EXCEPT
                  !.key.address = t.addr, !.name = provider]
    /\ persisted' = "none"
    /\ UNCHANGED <<IS_TESTNET, accounts, activeAccount, installedProviderNames,
                   cookie, providers, requests>>

(* ---------------------- use of an installed provider ------------------- *)

\* The state after install("MetaMask") resolved for a backend with the one
\* account 0xa.
InitProvider ==
    /\ IS_TESTNET \in BOOLEAN
    /\ accounts = <<[address |-> "0xa", obj |-> Entry]>>
    /\ activeAccount = [address |-> "0xa", obj |-> Entry]
    /\ installedProviderNames = {"MetaMask"}
    /\ providers = {"MetaMask"}
    /\ cookie = SaveCookie(accounts, activeAccount, installedProviderNames)
    /\ tasks = {}
    /\ persisted = "none"
    /\ ret = NoRet
    /\ requests = <<>>

NextProvider ==
    \/ \E networkId \in NetworkIds : SwitchChain(networkId)
    \/ \E t \in tasks : SwitchDone(t)
    \/ \E t \in tasks, code \in ErrorCodes : SwitchFailed(t, code)
    \/ \E t \in tasks : AddChainDone(t)
    \/ \E t \in tasks, code \in ErrorCodes : AddChainFailed(t, code)
    \/ \E key \in AccountKeys : Select(key)
    \/ \E t \in tasks, address \in Addresses : AddFetched(t, address)
    \/ \E t \in tasks : AddNotFound(t)
    \/ \E t \in tasks : AddFetchFailed(t)
    \/ \E t \in tasks : SelectCont(t)
    \/ \E key \in AccountKeys : Delete(key)
    \/ Clear
    \/ \E kind \in SignKinds : SignCall(kind)
    \/ \E t \in tasks, provider \in WalletNames \cup {"none"} : SignCont(t, provider)
    \/ GetProvider
    \/ \E t \in tasks, provider \in WalletNames \cup {"none"} : GetProviderDone(t, provider)

SpecProvider == InitProvider /\ [][NextProvider]_vars

(* ------------- Web3EvmProvider.sign / signTypedData / transact --------- *)

\* Strings that the code takes apart (signatures) are sequences of
\* one-character strings.
HexDigits == <<"0", "1", "2", "3", "4", "5", "6", "7", "8", "9",
               "a", "b", "c", "d", "e", "f">>

\* The value of a hexadecimal digit, -1 for any other character.
hexValue(c) ==
    IF \E i \in 1..16 : HexDigits[i] = c
    THEN (CHOOSE i \in 1..16 : HexDigits[i] = c) - 1
    ELSE -1

\* The number NaN.
NaN == -1

RECURSIVE parseHex(_, _)
parseHex(s, acc) ==
    IF s = <<>> \/ hexValue(Head(s)) = -1 THEN acc
    ELSE parseHex(Tail(s), acc * 16 + hexValue(Head(s)))

\* parseInt(s, 16): the value of the longest prefix of hexadecimal digits,
\* NaN when there is none.
parseInt16(s) == IF s = <<>> \/ hexValue(Head(s)) = -1 THEN NaN ELSE parseHex(s, 0)

\* Number.prototype.toString(16)
RECURSIVE toString16(_)
toString16(n) ==
    IF n = NaN THEN <<"N", "a", "N">>
    ELSE IF n < 16 THEN <<HexDigits[n + 1]>>
    ELSE toString16(n \div 16) \o <<HexDigits[(n % 16) + 1]>>

\* String.prototype.substr(start, length); a negative start counts from
\* the end.
substr(s, start, length) ==
    LET from == IF start < 0
                THEN (IF Len(s) + start < 0 THEN 0 ELSE Len(s) + start)
                ELSE (IF start > Len(s) THEN Len(s) ELSE start)
        to == IF from + length > Len(s) THEN Len(s) ELSE from + length
    IN SubSeq(s, from + 1, to)

\* The length _reorderSignatureRsvToVrs requires of a signature.
SignatureLength == 132

MalformedLengthError ==
    "Expect signature to be a hex thing with a total length of 132 characters (including the '0x' prefix)"

\* Mutant of normalizeV: the recovery id is left as the backend gave it.
normalizeV_Unchanged(v) == v

\* _reorderSignatureRsvToVrs: `if (v < 27) v += 27`; no comparison with NaN
\* is true.
normalizeV(v) == IF v # NaN /\ v < 27 THEN v + 27 ELSE v

\* _reorderSignatureRsvToVrs: the error it throws (NoError: none) and the
\* string it returns.
reorderSignatureRsvToVrs(signature) ==
    IF Len(signature) # SignatureLength
    THEN [err |-> MalformedLengthError, sig |-> <<>>]
    ELSE LET v == normalizeV(parseInt16(substr(signature, -2, 2)))
             r == substr(signature, 2, 64)
             s == substr(signature, 66, 64)
         IN [err |-> NoError, sig |-> <<"0", "x">> \o toString16(v) \o r \o s]

\* ClientSignatureStandard
ClientSignatureStandards ==
    {"PERSONAL", "TYPED_DATA_V1", "TYPED_DATA_V3", "TYPED_DATA_V4", "%future added value"}

\* options?.clientSignatureStandard, "undefined" when options or the
\* field is absent
StandardOptions == ClientSignatureStandards \cup {"undefined"}

\* `options?.clientSignatureStandard ?? dflt`
standardOr(option, dflt) == IF option = "undefined" THEN dflt ELSE option

\* The messages given to sign: "text" is no JSON text, "typedData" is the
\* JSON text of a typed-data object.
Messages == {"text", "typedData"}

\* JSON.parse(message) returns (it throws a SyntaxError otherwise)
parses(message) == message = "typedData"

\* signTypedData: typedStandards
typedStandards == {"TYPED_DATA_V1", "TYPED_DATA_V3", "TYPED_DATA_V4"}

UnsupportedStandardError == "Unsupported client signature standard for signing typed data."

\* signTypedData: signatureToMethod
signatureToMethod(standard) ==
    CASE standard = "PERSONAL" -> "personal_sign"
      [] standard = "TYPED_DATA_V1" -> "eth_signTypedData"
      [] standard = "TYPED_DATA_V3" -> "eth_signTypedData_v3"
      [] standard = "TYPED_DATA_V4" -> "eth_signTypedData_v4"
      [] OTHER -> "personal_sign"

\* Mutant of signSuffix: no tag is appended.
signSuffix_None(isTyped) == <<>>

\* sign: `isTyped ? "03" : ""`
signSuffix(isTyped) == IF isTyped THEN <<"0", "3">> ELSE <<>>

\* A string of n characters c.
Repeat(c, n) == [i \in 1..n |-> c]

\* The last two characters of the signatures of the backend: the recovery
\* ids 27, 28, 0 and 1, other hexadecimal values, and no hexadecimal number.
RecoveryIds ==
    {<<"1", "b">>, <<"1", "c">>, <<"0", "0">>, <<"0", "1">>, <<"0", "2">>,
     <<"1", "a">>, <<"f", "f">>, <<"z", "z">>}

\* 0x<64 r><64 s><2 v>
WellFormedSignatures ==
    {<<"0", "x">> \o Repeat(r, 64) \o Repeat("5", 64) \o v :
        r \in {"a", "c"}, v \in RecoveryIds}

\* What a backend answers to a signing request: a well-formed signature,
\* or one with a character less or more, or the empty string.
BackendSignatures ==
    WellFormedSignatures
        \cup {SubSeq(g, 1, Len(g) - 1) : g \in WellFormedSignatures}
        \cup {g \o <<"0">> : g \in WellFormedSignatures}
        \cup {<<>>}

\* A call of the provider is in flight.
ProviderBusy ==
    \E t \in tasks : t.kind \in {"providerSign", "providerSignTypedData",
                                 "providerTransact", "providerCall"}

\* provider.sign(message, address, options) called, up to the await of the
\* personal_sign request; for a typed standard JSON.parse(message) runs
\* first.
ProviderSign(message, address, option) ==
    /\ ~MicrotaskQueued /\ ~ProviderBusy
    /\ LET standard == standardOr(option, "PERSONAL")
           isTyped == standard # "PERSONAL"
           obs(outcome) == [Obs("providerSign", "call", outcome, 0) EXCEPT
                               !.key.address = address, !.standard = option,
                               !.message = message]
       IN IF isTyped /\ ~parses(message)
          THEN /\ requests' = <<>>
               /\ ret' = [obs("rejected") EXCEPT !.err = "SyntaxError"]
               /\ UNCHANGED tasks
          ELSE /\ requests' = <<Request("personal_sign", address)>>
               /\ tasks' = tasks \cup
                     {Task("providerSign", 0, 0, standard, address, "request",
                           NoAccount, NoError)}
               /\ ret' = obs("pending")
    /\ persisted' = "none"
    /\ UNCHANGED <<IS_TESTNET, accounts, activeAccount, installedProviderNames,
                   cookie, providers>>

\* the backend answers the personal_sign request of sign with a signature
ProviderSignDone(t, signature) ==
    /\ t \in tasks /\ t.kind = "providerSign" /\ t.pc = "request"
    /\ requests' = Answered(requests, "ok", NoErrorCode)
    /\ tasks' = tasks \ {t}
    /\ LET isTyped == t.name # "PERSONAL"
           reordered == IF isTyped THEN reorderSignatureRsvToVrs(signature)
                        ELSE [err |-> NoError, sig |-> signature]
           obs(outcome) == [Obs("providerSign", "request", outcome, 0) EXCEPT
                               !.key.address = t.addr, !.standard = t.name,
                               !.answer = signature]
       IN ret' = IF reordered.err # NoError
                 THEN [obs("rejected") EXCEPT !.err = reordered.err]
                 ELSE [obs("resolved") EXCEPT
                          !.sig = reordered.sig \o signSuffix(isTyped)]
    /\ persisted' = "none"
    /\ UNCHANGED <<IS_TESTNET, accounts, activeAccount, installedProviderNames,
                   cookie, providers>>

\* provider.signTypedData(message, address, options) called, up to the
\* await of the request
ProviderSignTypedData(message, address, option) ==
    /\ ~MicrotaskQueued /\ ~ProviderBusy
    /\ LET standard == standardOr(option, "TYPED_DATA_V4")
           obs(outcome) == [Obs("providerSignTypedData", "call", outcome, 0) EXCEPT
                               !.key.address = address, !.standard = option,
                               !.message = message]
       IN IF standard \notin typedStandards
          THEN /\ requests' = <<>>
               /\ ret' = [obs("rejected") EXCEPT !.err = UnsupportedStandardError]
               /\ UNCHANGED tasks
          ELSE /\ requests' = <<Request(signatureToMethod(standard), address)>>
               /\ tasks' = tasks \cup
                     {Task("providerSignTypedData", 0, 0, standard, address, "request",
                           NoAccount, NoError)}
               /\ ret' = obs("pending")
    /\ persisted' = "none"
    /\ UNCHANGED <<IS_TESTNET, accounts, activeAccount, installedProviderNames,
                   cookie, providers>>

\* the backend answers the request of signTypedData with a signature
ProviderSignTypedDataDone(t, signature) ==
    /\ t \in tasks /\ t.kind = "providerSignTypedData" /\ t.pc = "request"
    /\ requests' = Answered(requests, "ok", NoErrorCode)
    /\ tasks' = tasks \ {t}
    /\ LET reordered == reorderSignatureRsvToVrs(signature)
           obs(outcome) == [Obs("providerSignTypedData", "request", outcome, 0) EXCEPT
                               !.key.address = t.addr, !.standard = t.name,
                               !.answer = signature]
       IN ret' = IF reordered.err # NoError
                 THEN [obs("rejected") EXCEPT !.err = reordered.err]
                 ELSE [obs("resolved") EXCEPT !.sig = reordered.sig]
    /\ persisted' = "none"
    /\ UNCHANGED <<IS_TESTNET, accounts, activeAccount, installedProviderNames,
                   cookie, providers>>

\* the backend fails a signing request with an error of this code: the
\* call rejects with that error
ProviderSignFailed(t, code) ==
    /\ t \in tasks /\ t.kind \in {"providerSign", "providerSignTypedData"}
    /\ t.pc = "request"
    /\ requests' = Answered(requests, "error", code)
    /\ tasks' = tasks \ {t}
    /\ ret' = [Obs(t.kind, "request", "rejected", 0) EXCEPT
                  !.key.address = t.addr, !.standard = t.name, !.err = "requestError"]
    /\ persisted' = "none"
    /\ UNCHANGED <<IS_TESTNET, accounts, activeAccount, installedProviderNames,
                   cookie, providers>>

\* web3.eth.getAccounts results: up to MaxBackendAccounts distinct address
\* strings, in the spelling of the backend.
BackendAddressLists ==
    UNION {{l \in [1..n -> Addresses] : \A i, j \in 1..n : i # j => l[i] # l[j]}
           : n \in 0..MaxBackendAccounts}

\* getChain results: a chain identifier, or undefined ("NONE") when the
\* network id is unknown or the lookup failed.
ConnectedChains == ChainIdentifiers \cup {"NONE"}

\* mapToAccounts
mapToAccounts(addresses, chain) ==
    IF chain # "NONE"
    THEN [i \in 1..Len(addresses) |->
             [address |-> toLowerCase(addresses[i]), chain |-> chain]]
    ELSE <<>>

\* transact / call: `accounts.some(a => a.address === source)`
connected(accts, source) == \E i \in 1..Len(accts) : accts[i].address = source

\* The web3 function that transact / call hands the transaction to.
web3Method(kind) ==
    IF kind = "providerTransact" THEN "eth_sendTransaction" ELSE "eth_call"

\* transact(transaction) / call(transaction) called, up to the await of
\* getAccounts.  `requests` logs the transaction handed to the backend, not
\* the account and network queries of getAccounts.
ProviderTransact(kind, source) ==
    /\ ~MicrotaskQueued /\ ~ProviderBusy
    /\ requests' = <<>>
    /\ tasks' = tasks \cup
          {Task(kind, 0, 0, "none", source, "getAccounts", NoAccount, NoError)}
    /\ ret' = [Obs(kind, "call", "pending", 0) EXCEPT !.key.address = source]
    /\ persisted' = "none"
    /\ UNCHANGED <<IS_TESTNET, accounts, activeAccount, installedProviderNames,
                   cookie, providers>>

\* getAccounts() resolves: the backend gave `addresses` and getChain gave
\* `chain` (the provider reads no state of its own between the two awaits);
\* the rest of transact / call.
ProviderAccountsDone(t, addresses, chain) ==
    /\ t \in tasks /\ t.kind \in {"providerTransact", "providerCall"}
    /\ t.pc = "getAccounts"
    /\ tasks' = tasks \ {t}
    /\ LET accts == mapToAccounts(addresses, chain)
           obs(outcome) == [Obs(t.kind, "getAccounts", outcome, 0) EXCEPT
                               !.key.address = t.addr,
                               !.answer = [i \in 1..Len(accts) |-> accts[i].address]]
       IN IF connected(accts, t.addr)
          THEN /\ requests' = <<Request(web3Method(t.kind), t.addr)>>
               /\ ret' = obs("forwarded")
          ELSE /\ requests' = <<>>
               /\ ret' = [obs("rejected") EXCEPT
                             !.err = "Not connected to account " \o t.addr]
    /\ persisted' = "none"
    /\ UNCHANGED <<IS_TESTNET, accounts, activeAccount, installedProviderNames,
                   cookie, providers>>

\* web3.eth.getAccounts fails: transact / call rejects with its error
ProviderAccountsFailed(t) ==
    /\ t \in tasks /\ t.kind \in {"providerTransact", "providerCall"}
    /\ t.pc = "getAccounts"
    /\ tasks' = tasks \ {t}
    /\ requests' = <<>>
    /\ ret' = [Obs(t.kind, "getAccounts", "rejected", 0) EXCEPT
                  !.key.address = t.addr, !.err = "getAccountsError"]
    /\ persisted' = "none"
    /\ UNCHANGED <<IS_TESTNET, accounts, activeAccount, installedProviderNames,
                   cookie, providers>>

\* The calls of the installed provider
NextSigner ==
    \/ \E message \in Messages, address \in Addresses, option \in StandardOptions :
           ProviderSign(message, address, option)
    \/ \E t \in tasks, signature \in BackendSignatures : ProviderSignDone(t, signature)
    \/ \E message \in Messages, address \in Addresses, option \in StandardOptions :
           ProviderSignTypedData(message, address, option)
    \/ \E t \in tasks, signature \in BackendSignatures :
           ProviderSignTypedDataDone(t, signature)
    \/ \E t \in tasks, code \in ErrorCodes : ProviderSignFailed(t, code)
    \/ \E kind \in {"providerTransact", "providerCall"}, source \in Addresses :
           ProviderTransact(kind, source)
    \/ \E t \in tasks, addresses \in BackendAddressLists, chain \in ConnectedChains :
           ProviderAccountsDone(t, addresses, chain)
    \/ \E t \in tasks : ProviderAccountsFailed(t)

SpecSigner == InitProvider /\ [][NextSigner]_vars

(* ------------------------------ properties ----------------------------- *)

\* The registry holds an entry with this address, up to case.
Registered(accts, address) ==
    \E i \in 1..Len(accts) : toLowerCase(accts[i].address) = toLowerCase(address)

\* The persisted blob c is the serialization of the given in-memory state
\* (no blob when the state is empty).
Persists(c, accts, active, installed) ==
    IF active = NoAccount /\ accts = <<>> /\ installed = {}
    THEN ~c.present
    ELSE /\ c.present
         /\ Len(c.accounts) = Len(accts)
         /\ \A i \in 1..Len(accts) : c.accounts[i] = accts[i].address
         /\ c.activeAccount = active.address
         /\ c.installedProviderNames = installed

\* C1: in every reachable state, if activeAccount is set then the registry
\* holds an entry with the same lower-cased address.
C1_ActiveAccountRegistered ==
    activeAccount # NoAccount => Registered(accounts, activeAccount.address)

\* C2: delete(key) on a key whose lower-cased address is that of the active
\* account removes the entry, leaves activeAccount unset and persists, in
\* every reachable state; delete of a key absent from the registry changes
\* nothing and persists nothing.
C2_DeleteActive ==
    [][ret'.op = "delete" =>
          /\ (activeAccount # NoAccount
                /\ toLowerCase(activeAccount.address) = toLowerCase(ret'.key.address)
                /\ Registered(accounts, ret'.key.address))
             => /\ ~Registered(accounts', ret'.key.address)
                /\ activeAccount' = NoAccount
                /\ Persists(cookie', accounts', activeAccount', installedProviderNames')
                /\ persisted' # "none"
          /\ ~Registered(accounts, ret'.key.address)
             => /\ UNCHANGED <<accounts, activeAccount, installedProviderNames, cookie>>
                /\ persisted' = "none"]_vars

\* C3: the registry never contains two entries whose addresses are equal
\* after lower-casing.
C3_NoDuplicateAddress ==
    \A i, j \in 1..Len(accounts) :
        toLowerCase(accounts[i].address) = toLowerCase(accounts[j].address) => i = j

\* C3 witness: an add asked for "0xa" registered the record spelled "0xA"
\* next to another entry.
C3_Witness ==
    /\ ret.op = "add" /\ ret.pc = "fetch" /\ ret.outcome = "resolved"
    /\ ret.key.address = "0xa" /\ ret.val.address = "0xA"
    /\ Len(accounts) = 2
    /\ \E i \in 1..2 : accounts[i].address = "0xA"

\* The error install rethrows when it fails at pc having seen got.
InstallError(pc, got) ==
    CASE pc = "connect" -> "connectError"
      [] pc = "getAccounts" /\ got.n = -1 -> "getAccountsError"
      [] pc = "getAccounts" /\ got.n # -1 ->
            "Please connect to the "
                \o CHAIN_IDENTIFIERS_TO_NAMES(appropriateChain(got.connectedChain))
                \o " network."
      [] OTHER -> "fetchError"

\* C4: when an install(name) call rejects, name is not in
\* installedProviderNames, the provider instance of name is released, the
\* state has been persisted, and the error is the original one.
C4_InstallFailureRollsBack ==
    [][(ret'.op = "install" /\ ret'.outcome = "rejected") =>
          /\ ret'.name \notin installedProviderNames'
          /\ ret'.name \notin providers'
          /\ Persists(cookie', accounts', activeAccount', installedProviderNames')
          /\ persisted' # "none"
          /\ ret'.err = InstallError(ret'.pc, ret'.got)]_vars

\* C4 witness: an install failed while registering accounts, one of which
\* was registered, and the name is not installed.
C4_Witness ==
    /\ ret.op = "install" /\ ret.outcome = "rejected" /\ ret.pc = "catch"
    /\ ret.err = "fetchError"
    /\ accounts # <<>>
    /\ ret.name \notin installedProviderNames /\ ret.name \notin providers
    /\ cookie.present

\* C5: when install(name) resolves after the backend returned an in-network
\* account, and the first of them is registered, then it is the active
\* account and name is installed.
C5_InstallSelectsFirst ==
    (ret.op = "install" /\ ret.pc = "join" /\ ret.outcome = "resolved"
        /\ ret.first # "none" /\ Registered(accounts, ret.first))
    => /\ activeAccount # NoAccount
       /\ toLowerCase(activeAccount.address) = toLowerCase(ret.first)
       /\ ret.name \in installedProviderNames

\* A step of an install before it has the accounts of the backend.
InstallAdvances ==
    \E t \in tasks :
        /\ t.kind = "install" /\ t.pc \in {"addProvider", "connect"}
        /\ t \notin tasks'
        /\ \E u \in tasks' : u.kind = "install" /\ u.id = t.id /\ u.pc # t.pc

\* C6: install(name) with a backend that connects and reports zero accounts
\* resolves without error, leaves installedProviderNames, the registry and
\* the active account as they were, and does not persist.
C6_InstallZeroAccounts ==
    [][/\ (ret'.op = "install" /\ ret'.pc = "getAccounts" /\ ret'.got.n = 0) =>
             /\ ret'.outcome = "resolved" /\ ret'.err = NoError
             /\ persisted' = "none"
             /\ UNCHANGED <<accounts, activeAccount, installedProviderNames, cookie>>
       /\ ((ret'.op = "install" /\ ret'.pc = "call") \/ InstallAdvances) =>
             /\ persisted' = "none"
             /\ UNCHANGED <<accounts, activeAccount, installedProviderNames, cookie>>
      ]_vars

\* C6 witness: an install saw zero accounts in a wallet that holds accounts
\* and has not the name installed.
C6_Witness ==
    /\ ret.op = "install" /\ ret.pc = "getAccounts" /\ ret.got.n = 0
    /\ ret.outcome = "resolved"
    /\ accounts # <<>> /\ activeAccount # NoAccount
    /\ ret.name \notin installedProviderNames

\* C7: if some returned account is off-network and the connected chain has
\* a counterpart, install fails with "Please connect to the <counterpart>
\* network." before any account is selected or registered, the name is not
\* installed and the provider is released.
C7_InstallOffNetwork ==
    [][(ret'.op = "install" /\ ret'.pc = "getAccounts" /\ ret'.got.offNetwork
          /\ appropriateChain(ret'.got.connectedChain) # "NONE") =>
          /\ ret'.outcome = "rejected"
          /\ ret'.err = "Please connect to the "
                \o CHAIN_IDENTIFIERS_TO_NAMES(appropriateChain(ret'.got.connectedChain))
                \o " network."
          /\ UNCHANGED <<accounts, activeAccount>>
          /\ {t \in tasks' : t.kind \in {"add", "select"}} \subseteq tasks
          /\ ret'.name \notin installedProviderNames'
          /\ ret'.name \notin providers']_vars

\* C7 witness: in mainnet mode an install was refused for two accounts of
\* a backend connected to the test chain, in a wallet that holds accounts.
C7_Witness ==
    /\ ret.op = "install" /\ ret.pc = "getAccounts" /\ ret.outcome = "rejected"
    /\ ret.got.n = 2 /\ ret.got.offNetwork
    /\ ~IS_TESTNET /\ ret.got.connectedChain = "RINKEBY"
    /\ ret.err = "Please connect to the Ethereum network."
    /\ accounts # <<>>
    /\ ret.name \notin installedProviderNames /\ ret.name \notin providers

\* The add call observed in the next state follows, for the same key, an
\* add call that the current state observed resolved.
SecondAdd ==
    /\ ret.op = "add" /\ ret.outcome = "resolved" /\ ret.owner = 0
    /\ ret'.op = "add" /\ ret'.pc = "call"
    /\ ret'.key.address = ret.key.address
    /\ IF ret.pc = "call" THEN ret'.key.chain = ret.key.chain ELSE InNetwork(ret'.key)

\* The second of two add calls returns the cached account of the only entry
\* with its address, without a remote fetch.
ReturnsCached ==
    /\ ret'.outcome = "resolved"
    /\ Cardinality({i \in 1..Len(accounts') :
            toLowerCase(accounts'[i].address) = toLowerCase(ret'.key.address)}) = 1
    /\ ret'.val = find(ret'.key)
    /\ ret'.val # NoAccount
    /\ UNCHANGED <<tasks, accounts>>

\* C8, as stated: of two add calls for the same key, the second issued
\* right after the first resolved, the second leaves exactly one entry for
\* the address and returns the cached account without a remote fetch.
C8_AddTwice == [][SecondAdd => ReturnsCached]_vars

\* C8, amended: the same when the first call returned an account; and any
\* add call for a network-compatible key whose address is registered
\* returns the cached account without a remote fetch.
C8_AddIdempotent ==
    [][/\ (SecondAdd /\ ret.val # NoAccount) => ReturnsCached
       /\ (ret'.op = "add" /\ ret'.pc = "call" /\ InNetwork(ret'.key)
             /\ Registered(accounts, ret'.key.address)) => ReturnsCached]_vars

\* C8 witness: an add call asked for the other spelling of the address that
\* the previous add registered got the cached account.
C8_Witness ==
    /\ ret.op = "add" /\ ret.pc = "call" /\ ret.outcome = "resolved"
    /\ ret.val # NoAccount /\ ret.val.address # ret.key.address
    /\ Len(accounts) = 1 /\ accounts[1] = ret.val
    /\ tasks = {}

\* C9: add(key) with a key of the other network mode returns not-found at
\* once, without error and without a remote fetch, and leaves the registry,
\* the active account and the persisted blob unchanged.
C9_AddOffNetwork ==
    [][(ret'.op = "add" /\ ret'.pc = "call"
          /\ IS_TESTNET # (ret'.key.chain \in TESTNET_CHAIN_IDENTIFIERS)) =>
          /\ ret'.outcome = "resolved" /\ ret'.val = NoAccount /\ ret'.err = NoError
          /\ persisted' = "none"
          /\ UNCHANGED <<accounts, activeAccount, installedProviderNames, cookie, tasks>>
      ]_vars

\* C9 witness: an off-network add of a registered address returned
\* not-found.
C9_Witness ==
    /\ ret.op = "add" /\ ret.pc = "call" /\ ret.outcome = "resolved"
    /\ ~InNetwork(ret.key)
    /\ Registered(accounts, ret.key.address)
    /\ ret.val = NoAccount

\* The step in which the remote source answers an add.
AddAnswered == ret'.op = "add" /\ ret'.pc = "fetch" /\ ret'.outcome = "resolved"

\* What every answered add does besides changing the registry: the account
\* becomes active iff none was, and the state is persisted; after not-found
\* nothing changes and nothing is persisted.
AddAnsweredRest ==
    IF ret'.val # NoAccount
    THEN /\ activeAccount = NoAccount => activeAccount' = ret'.val
         /\ activeAccount # NoAccount => activeAccount'.address = activeAccount.address
         /\ Persists(cookie', accounts', activeAccount', installedProviderNames')
         /\ persisted' = "set"
    ELSE /\ UNCHANGED <<accounts, activeAccount, cookie>>
         /\ persisted' = "none"

\* C10, as stated: when the remote source returns an account, add appends
\* it to the registry, makes it active iff no account was active, and
\* persists; after not-found nothing changes and nothing is persisted.
C10_AddAppends ==
    [][AddAnswered =>
          /\ ret'.val # NoAccount => accounts' = Append(accounts, ret'.val)
          /\ AddAnsweredRest]_vars

\* C10, amended: the account is appended when its address is still absent
\* from the registry at that point, and replaces the entry with its address
\* in place otherwise.
C10_AddRegisters ==
    [][AddAnswered =>
          /\ (ret'.val # NoAccount /\ ~Registered(accounts, ret'.val.address))
             => accounts' = Append(accounts, ret'.val)
          /\ (ret'.val # NoAccount /\ Registered(accounts, ret'.val.address))
             => /\ Len(accounts') = Len(accounts)
                /\ \A i \in 1..Len(accounts) :
                      accounts'[i] =
                         IF toLowerCase(accounts[i].address) = toLowerCase(ret'.val.address)
                         THEN ret'.val ELSE accounts[i]
          /\ AddAnsweredRest]_vars

\* C10 witness: an answered add appended a second account and did not make
\* it the active one.
C10_Witness ==
    /\ ret.op = "add" /\ ret.pc = "fetch" /\ ret.outcome = "resolved"
    /\ ret.val # NoAccount
    /\ Len(accounts) = 2 /\ accounts[2] = ret.val
    /\ activeAccount = accounts[1]

C12_PersistedMatchesState ==
    tasks = {} => Persists(cookie, accounts, activeAccount, installedProviderNames)

\* The in-memory state is empty: no active account, no registered account,
\* no installed provider name.
EmptyState(accts, active, installed) ==
    active = NoAccount /\ accts = <<>> /\ installed = {}

\* C13: a save writes the blob iff the active account is set or the
\* registry or the installed set is non-empty, and deletes the persisted
\* record otherwise; a persisted record is never the empty state.
C13_SaveWritesIffNonEmpty ==
    [][/\ persisted' = "set" <=>
             (persisted' # "none"
                /\ ~EmptyState(accounts', activeAccount', installedProviderNames'))
       /\ persisted' = "set" =>
             /\ cookie'.present
             /\ Persists(cookie', accounts', activeAccount', installedProviderNames')
       /\ persisted' = "remove" => ~cookie'.present
       /\ cookie'.present =>
             ~(cookie'.accounts = <<>> /\ cookie'.activeAccount = "none"
                 /\ cookie'.installedProviderNames = {})]_vars

\* C13 witness: the delete of the only account, the active one, with no
\* provider installed, deleted the persisted record.
C13_Witness ==
    /\ ret.op = "delete" /\ persisted = "remove" /\ ~cookie.present
    /\ EmptyState(accounts, activeAccount, installedProviderNames)

\* C14: clear() leaves the registry empty, the active account unset and the
\* installed set empty, and its persistence step deletes the persisted
\* record.
C14_ClearEmpties ==
    [][ret'.op = "clear" =>
          /\ accounts' = <<>>
          /\ activeAccount' = NoAccount
          /\ installedProviderNames' = {}
          /\ persisted' = "remove"
          /\ ~cookie'.present]_vars

\* C14 witness: clear() was called while a provider was live and deleted the
\* persisted record.
C14_Witness ==
    /\ ret.op = "clear" /\ persisted = "remove" /\ ~cookie.present
    /\ providers # {}
    /\ EmptyState(accounts, activeAccount, installedProviderNames)

\* The install with this id can still fail: it awaits a fetch that may
\* reject.
CanStillThrow(ts, id) ==
    \E t \in ts :
        /\ t.kind = "install" /\ t.id = id /\ t.pc = "join"
        /\ \E c \in ts : c.owner = id /\ c.kind = "add" /\ c.pc = "fetch"

\* C15: a write of the persisted blob made on behalf of an operation comes
\* after the last point at which the operation can still throw: when an
\* add or select started by an install saves, the install can no longer
\* fail.
C15_WriteAfterLastThrowPoint ==
    [][(ret'.op \in {"add", "select"} /\ ret'.owner > 0 /\ persisted' # "none")
          => ~CanStillThrow(tasks', ret'.owner)]_vars

\* C16: loadProviders returns, resolving or rejecting, only after every
\* install it started has completed.
C16_LoadProvidersJoinsAll ==
    [][(ret'.op = "loadProviders" /\ ret'.outcome \in {"resolved", "rejected"})
          => \A t \in tasks' : t.kind # "install"]_vars

\* C17: a switchChain call sends at most one wallet_switchEthereumChain
\* request, first, and a wallet_addEthereumChain request only after the
\* switch request failed with the code 4902; nothing is sent after the add
\* request, and nothing after any other answer to the switch request.
C17_SwitchChainRequestOrder ==
    /\ Len(requests) <= 2
    /\ Len(requests) >= 1 => requests[1].method = "wallet_switchEthereumChain"
    /\ Len(requests) = 2 =>
          /\ requests[2].method = "wallet_addEthereumChain"
          /\ requests[2].chainId = requests[1].chainId
          /\ requests[1].answer = "error"
          /\ requests[1].code = 4902

\* C17 witness: the switch request failed with 4902, the chain was added,
\* the call resolved, and no second switch request was sent.
C17_Witness ==
    /\ Len(requests) = 2
    /\ requests[1].code = 4902
    /\ requests[2].method = "wallet_addEthereumChain" /\ requests[2].answer = "ok"
    /\ ret.op = "switchChain" /\ ret.outcome = "resolved"
    /\ \A t \in tasks : t.kind # "switchChain"

\* C18: switchChain resolves exactly when the switch request succeeded, or
\* failed with 4001, or failed with 4902 and the add request succeeded; it
\* rejects with "There was a problem adding the network" when the add
\* request failed, and with "There was a problem switching the network"
\* for every other code of the switch error.
C18_SwitchChainOutcome ==
    (ret.op = "switchChain" /\ ret.pc \in {"switch", "add"} /\ ret.outcome # "pending") =>
       LET switched == requests[1].answer = "ok"
           declined == requests[1].answer = "error" /\ requests[1].code = 4001
           unadded == requests[1].answer = "error" /\ requests[1].code = 4902
           added == unadded /\ Len(requests) = 2 /\ requests[2].answer = "ok"
           addFailed == unadded /\ Len(requests) = 2 /\ requests[2].answer = "error"
       IN /\ ret.outcome = "resolved" <=> (switched \/ declined \/ added)
          /\ ret.outcome = "resolved" => ret.err = NoError
          /\ addFailed <=>
                (ret.outcome = "rejected"
                   /\ ret.err = "There was a problem adding the network")
          /\ (requests[1].answer = "error" /\ requests[1].code \notin {4001, 4902}) <=>
                (ret.outcome = "rejected"
                   /\ ret.err = "There was a problem switching the network")

\* C18 witness: the user declined the switch and the call resolved.
C18_Witness ==
    /\ ret.op = "switchChain" /\ ret.pc = "switch" /\ ret.outcome = "resolved"
    /\ Len(requests) = 1
    /\ requests[1].answer = "error" /\ requests[1].code = 4001

\* C19: switchChain for chain data whose network id is undefined fails
\* with "Chain network ID was not found" and sends no request.
C19_SwitchChainNoNetworkId ==
    [][(ret'.op = "switchChain" /\ ret'.pc = "call" /\ ret'.networkId = -1) =>
          /\ ret'.outcome = "rejected"
          /\ ret'.err = "Chain network ID was not found"
          /\ requests' = <<>>
          /\ \A t \in tasks' : t.kind # "switchChain"]_vars

\* C19 witness: such a call failed; nothing was sent and no switchChain
\* call is in flight.
C19_Witness ==
    /\ ret.op = "switchChain" /\ ret.pc = "call" /\ ret.networkId = -1
    /\ ret.outcome = "rejected" /\ ret.err = "Chain network ID was not found"
    /\ requests = <<>>
    /\ \A t \in tasks : t.kind # "switchChain"

\* C20: sign, signTypedData and transact forward to a provider only when an
\* active account and a provider resolved for it exist, and pass the active
\* account's address; otherwise they fail with "Could not find wallet
\* provider matching current account." and call no provider; getProvider
\* returns undefined instead of throwing.
C20_ForwardToProviderOfActive ==
    [][/\ (ret'.op \in SignKinds /\ ret'.outcome = "forwarded") =>
             /\ activeAccount' # NoAccount
             /\ ret'.val = activeAccount'
             /\ ret'.name # "none"
             /\ toLowerCase(ret'.key.address) = toLowerCase(activeAccount'.address)
       /\ (ret'.op \in SignKinds /\ ret'.outcome \notin {"forwarded", "pending"}) =>
             /\ ret'.outcome = "rejected"
             /\ ret'.err = "Could not find wallet provider matching current account."
             /\ (activeAccount' = NoAccount \/ ret'.name = "none")
       /\ ret'.op = "getProvider" => ret'.outcome \in {"pending", "resolved"}
      ]_vars

\* The observed call is signTypedData whose request the backend answered
\* with a signature.
TypedDataAnswered ==
    /\ ret.op = "providerSignTypedData" /\ ret.pc = "request"
    /\ Len(requests) = 1 /\ requests[1].answer = "ok"

\* The string `out` is 0x<v><r><s> for the r and s of the 132-character
\* signature `in`.
IsVrsOf(out, in) ==
    /\ Len(out) = 132
    /\ SubSeq(out, 1, 2) = <<"0", "x">>
    /\ SubSeq(out, 5, 68) = SubSeq(in, 3, 66)
    /\ SubSeq(out, 69, 132) = SubSeq(in, 67, 130)

\* The last two characters of the string are hexadecimal digits.
EndsInHexByte(in) ==
    /\ Len(in) >= 2
    /\ hexValue(in[Len(in) - 1]) # -1 /\ hexValue(in[Len(in)]) # -1

\* C21: signTypedData accepts exactly TYPED_DATA_V1, TYPED_DATA_V3,
\* TYPED_DATA_V4 and PERSONAL, each with its own RPC method, TYPED_DATA_V4
\* being the default; any other standard fails with the unsupported-standard
\* error before any request; an accepted call returns the reordered
\* signature without a suffix.
C21_SignTypedDataStandards ==
    /\ (ret.op = "providerSignTypedData" /\ ret.pc = "call") =>
          LET standard == IF ret.standard = "undefined" THEN "TYPED_DATA_V4"
                          ELSE ret.standard
              method == CASE standard = "TYPED_DATA_V1" -> "eth_signTypedData"
                          [] standard = "TYPED_DATA_V3" -> "eth_signTypedData_v3"
                          [] standard = "TYPED_DATA_V4" -> "eth_signTypedData_v4"
                          [] standard = "PERSONAL" -> "personal_sign"
                          [] OTHER -> "none"
          IN IF method # "none"
             THEN /\ ret.outcome = "pending"
                  /\ Len(requests) = 1 /\ requests[1].method = method
             ELSE /\ ret.outcome = "rejected"
                  /\ ret.err = "Unsupported client signature standard for signing typed data."
                  /\ requests = <<>>
    /\ (TypedDataAnswered /\ ret.outcome = "resolved" /\ EndsInHexByte(ret.answer)) =>
          IsVrsOf(ret.sig, ret.answer)

\* C22: transact and call hand the transaction to the backend exactly when
\* its source equals, after lower-casing, the address of one of the accounts
\* getAccounts returned; otherwise they fail with "Not connected to account
\* <source>" and hand nothing to the backend.
C22_TransactChecksSource ==
    (ret.op \in {"providerTransact", "providerCall"} /\ ret.pc = "getAccounts"
        /\ ret.err # "getAccountsError") =>
       LET isConnected == \E i \in 1..Len(ret.answer) :
                              toLowerCase(ret.answer[i]) = toLowerCase(ret.key.address)
       IN IF isConnected
          THEN /\ ret.outcome = "forwarded"
               /\ Len(requests) = 1 /\ requests[1].chainId = ret.key.address
          ELSE /\ ret.outcome = "rejected"
               /\ ret.err = "Not connected to account " \o ret.key.address
               /\ requests = <<>>

\* C23: the reorder step returns exactly for 132-character signatures
\* 0x<r><s><v>, and returns the 132 characters 0x<v'><r><s>, where v' is 1b
\* for v = 1b and v = 00, and 1c for v = 1c and v = 01; a signature of any
\* other length fails with the malformed-length error.
C23_ReorderSignature ==
    TypedDataAnswered =>
       LET v == SubSeq(ret.answer, 131, 132) IN
       /\ Len(ret.answer) # 132 =>
             /\ ret.outcome = "rejected"
             /\ ret.err = "Expect signature to be a hex thing with a total length of 132 characters (including the '0x' prefix)"
       /\ Len(ret.answer) = 132 => ret.outcome = "resolved" /\ ret.err = NoError
       /\ (Len(ret.answer) = 132 /\ EndsInHexByte(ret.answer)) => IsVrsOf(ret.sig, ret.answer)
       /\ (Len(ret.answer) = 132 /\ v \in {<<"1", "b">>, <<"0", "0">>}) =>
             SubSeq(ret.sig, 3, 4) = <<"1", "b">>
       /\ (Len(ret.answer) = 132 /\ v \in {<<"1", "c">>, <<"0", "1">>}) =>
             SubSeq(ret.sig, 3, 4) = <<"1", "c">>

\* C23 witness: a signature ending in 00 came back as 0x1b<r><s>.
C23_Witness ==
    /\ TypedDataAnswered /\ ret.outcome = "resolved"
    /\ Len(ret.answer) = 132 /\ SubSeq(ret.answer, 131, 132) = <<"0", "0">>
    /\ SubSeq(ret.sig, 1, 4) = <<"0", "x", "1", "b">>
    /\ ret.sig[5] = ret.answer[3] /\ ret.sig[132] = ret.answer[130]

\* C24: sign sends exactly one personal_sign request; with the PERSONAL
\* standard, the default, it returns the signature of the backend as it is,
\* whatever its length; with any other standard and a message that is
\* typed data it returns the reordered signature followed by 03, 134
\* characters.
C24_SignDispatch ==
    /\ (ret.op = "providerSign" /\ ret.outcome = "pending") =>
          /\ Len(requests) = 1 /\ requests[1].method = "personal_sign"
          /\ requests[1].chainId = ret.key.address
    /\ (ret.op = "providerSign" /\ ret.pc = "call"
          /\ (ret.standard \in {"undefined", "PERSONAL"} \/ ret.message = "typedData")) =>
          ret.outcome = "pending"
    /\ (ret.op = "providerSign" /\ ret.pc = "request" /\ requests[1].answer = "ok") =>
          /\ Len(requests) = 1 /\ requests[1].method = "personal_sign"
          /\ ret.standard = "PERSONAL" =>
                ret.outcome = "resolved" /\ ret.sig = ret.answer
          /\ (ret.standard # "PERSONAL" /\ Len(ret.answer) = 132
                /\ EndsInHexByte(ret.answer)) =>
                /\ ret.outcome = "resolved"
                /\ Len(ret.sig) = 134
                /\ IsVrsOf(SubSeq(ret.sig, 1, 132), ret.answer)
                /\ SubSeq(ret.sig, 133, 134) = <<"0", "3">>

\* C24 witness: a sign call with a typed standard returned 134 characters
\* ending in 03.
C24_Witness ==
    /\ ret.op = "providerSign" /\ ret.pc = "request" /\ ret.outcome = "resolved"
    /\ ret.standard = "TYPED_DATA_V4"
    /\ Len(ret.answer) = 132 /\ Len(ret.sig) = 134
    /\ SubSeq(ret.sig, 133, 134) = <<"0", "3">>

\* The keys of the registry, in its order.
KeysOf(accts) == [i \in 1..Len(accts) |-> toLowerCase(accts[i].address)]

\* The step in which the remote source answers a fetch of refresh.
RefreshAnswered == ret'.op = "refresh" /\ ret'.pc = "fetch" /\ ret'.outcome = "resolved"

\* C25: refresh starts one fetch per registered account; each answer for an
\* address that is registered leaves the keys of the registry and their
\* order unchanged, replaces the entry of that address by the fetched
\* record (not-found keeps the old one), makes the fetched record the
\* active account when the active account has its key (an unset active
\* account stays unset) and persists nothing; once every fetch has been
\* answered refresh persists the state, once, and resolves.
C25_RefreshReplaces ==
    [][/\ (ret'.op = "refresh" /\ ret'.pc = "call") =>
             /\ {t.addr : t \in {u \in tasks' \ tasks : u.kind = "rfetch"}}
                   = {accounts[i].address : i \in 1..Len(accounts)}
             /\ persisted' = "none"
             /\ UNCHANGED <<accounts, activeAccount, cookie>>
       /\ (RefreshAnswered /\ Registered(accounts, ret'.key.address)) =>
             /\ KeysOf(accounts') = KeysOf(accounts)
             /\ \A i \in 1..Len(accounts) :
                   accounts'[i] =
                      IF ret'.val # NoAccount
                            /\ KeysOf(accounts)[i] = toLowerCase(ret'.key.address)
                      THEN ret'.val ELSE accounts[i]
             /\ ret'.val # NoAccount =>
                   toLowerCase(ret'.val.address) = toLowerCase(ret'.key.address)
             /\ activeAccount' =
                   IF ret'.val # NoAccount /\ activeAccount # NoAccount
                         /\ toLowerCase(activeAccount.address) = toLowerCase(ret'.val.address)
                   THEN ret'.val ELSE activeAccount
             /\ persisted' = "none" /\ cookie' = cookie
       /\ (ret'.op = "refresh" /\ ret'.pc = "join") =>
             /\ ret'.outcome = "resolved"
             /\ \A t \in tasks : t.kind # "rfetch"
             /\ persisted' # "none"
             /\ Persists(cookie', accounts', activeAccount', installedProviderNames')
             /\ UNCHANGED <<accounts, activeAccount>>
      ]_vars

\* C25 witness: a refresh of two accounts resolved; the active account,
\* which a page load had left as a separate copy, is the refreshed second
\* entry, and the blob holds the refreshed records.
C25_Witness ==
    /\ ret.op = "refresh" /\ ret.pc = "join" /\ ret.outcome = "resolved"
    /\ Len(accounts) = 2 /\ activeAccount = accounts[2]
    /\ accounts[1].address = "0xA"
    /\ persisted = "set"
    /\ cookie.accounts = <<accounts[1].address, accounts[2].address>>
    /\ cookie.activeAccount = accounts[2].address

\* C26: refresh never re-inserts an account that was removed while its
\* fetches were in flight: when a fetch result is applied, the registry
\* gets no key that was absent from it at that moment.
C26_RefreshNeverReinserts ==
    [][(RefreshAnswered /\ ~Registered(accounts, ret'.key.address))
          => ~Registered(accounts', ret'.key.address)]_vars

\* C27: with add, select, refresh and install calls interleaved at their
\* suspension points, and no delete or clear, no step of any call removes a
\* registered address from the registry: every account an add registered is
\* still registered when all calls have completed.
C27_NoLostUpdate ==
    [][\A i \in 1..Len(accounts) : Registered(accounts', accounts[i].address)]_vars

\* C27 witness: an add registered a second account while the fetch of a
\* refresh for the first was in flight.
C27_Witness ==
    /\ ret.op = "add" /\ ret.pc = "fetch" /\ ret.outcome = "resolved"
    /\ Len(accounts) = 2 /\ accounts[2] = ret.val
    /\ \E t \in tasks : t.kind = "rfetch" /\ toLowerCase(t.addr) = toLowerCase(accounts[1].address)

====
